---------------------------- MODULE Spec2Model ----------------------------
(***************************************************************************)
(* Model of the data-contract registry of data_contracts_management:       *)
(* ContractManager (contract_manager.py) over a contracts directory and a  *)
(* Great Expectations suite store, and the FastAPI handlers (api.py) that  *)
(* call it.                                                                *)
(*                                                                         *)
(* Conventions.  Optional[T] is a sequence of length <= 1: <<>> is None,   *)
(* <<v>> is the value v.  A datetime is a natural number (a reading of the *)
(* wall clock).  The contracts directory is a function from the ids that   *)
(* have a file <id>.json to the JSON document in the file.                 *)
(***************************************************************************)
EXTENDS Integers, Sequences, FiniteSets, TLC

\* ------------------------------------------------------------------ bounds

\* Largest reading of the clock; the clock starts at 1.
MaxClock == 2

\* How many calls into the expectations engine may raise in one run.
MaxGeFailures == 1

\* Ids a client may name.  uuid4 draws from UuidPool; a client may name any id,
\* also one the service returned earlier.
UuidPool == {"u1"}
Ids == {"a"} \cup UuidPool

\* ------------------------------------------------------------------ models.py

ContractStatus == [DRAFT |-> "draft", ACTIVE |-> "active",
                   DEPRECATED |-> "deprecated", FAILED |-> "failed"]

StatusValues == {ContractStatus.DRAFT, ContractStatus.ACTIVE,
                 ContractStatus.DEPRECATED, ContractStatus.FAILED}

\* FieldContract values used as inputs.
FieldOrderId == [name |-> "order_id", data_type |-> "integer", nullable |-> FALSE,
                 constraints |-> << <<"min_value", 1>> >>]

FieldEmail == [name |-> "email", data_type |-> "string", nullable |-> TRUE,
               constraints |-> << >>]

FieldAge == [name |-> "age", data_type |-> "integer", nullable |-> FALSE,
             constraints |-> << <<"max_value", 120>>, <<"min_length", 1>> >>]

FieldsOrders == << FieldOrderId >>
FieldsUsers == << FieldEmail, FieldAge >>

\* DataContract(...) with the defaults of the class: id None, version "1.0.0",
\* status DRAFT, created_at None, updated_at None, owner None, tags [].
DataContract(id, name, status, dataset_name, fields, created_at, updated_at, owner, tags) ==
    [id |-> id, name |-> name, description |-> << >>, version |-> "1.0.0",
     status |-> status, dataset_name |-> dataset_name, fields |-> fields,
     created_at |-> created_at, updated_at |-> updated_at,
     owner |-> owner, tags |-> tags]

\* The request bodies a client submits, without the id.  PayloadUsers carries
\* timestamps (0, older than every reading of the clock) and a status of its own.
PayloadOrders == DataContract(<< >>, "orders_contract", ContractStatus.DRAFT, "orders",
                              FieldsOrders, << >>, << >>, << >>, << >>)

PayloadUsers == DataContract(<< >>, "users_contract", ContractStatus.ACTIVE, "users",
                             FieldsUsers, <<0>>, <<0>>,
                             <<"data-team">>, <<"users", "pii">>)

Payloads == {PayloadOrders, PayloadUsers}

\* The ids a request body may carry: absent, empty, or a name.
SubmittedIds == {<< >>, <<"">>} \cup {<<i>> : i \in Ids \ UuidPool}

\* ------------------------------------------------------------------ JSON file

\* json.dump(contract.dict(), default=str): a datetime becomes its string, an
\* enum member its value; None becomes null.
DumpDatetime(d) == IF d = << >> THEN << >> ELSE <<"str", d[1]>>

\* pydantic parsing of a datetime field: null is None, a string is parsed.
ParseDatetime(j) == IF j = << >> THEN << >> ELSE <<j[2]>>

JsonDump(c) == [c EXCEPT !.created_at = DumpDatetime(c.created_at),
                         !.updated_at = DumpDatetime(c.updated_at)]

JsonLoad(doc) == [doc EXCEPT !.created_at = ParseDatetime(doc.created_at),
                             !.updated_at = ParseDatetime(doc.updated_at)]

\* ------------------------------------------------------------------ helpers

Put(f, k, v) == [x \in DOMAIN f \cup {k} |-> IF x = k THEN v ELSE f[x]]

Remove(f, k) == [x \in DOMAIN f \ {k} |-> f[x]]

RECURSIVE Concat(_)
Concat(seqs) == IF seqs = << >> THEN << >> ELSE Head(seqs) \o Concat(Tail(seqs))

RemoveFromSeq(s, x) == SelectSeq(s, LAMBDA y : y # x)

\* The sequences that enumerate the set S, each element once.
Enumerations(S) ==
    {s \in [1..Cardinality(S) -> S] : \A i, j \in 1..Cardinality(S) : s[i] = s[j] => i = j}

\* ------------------------------------------------------------------ state

VARIABLES
    files,      \* contracts_dir: id -> the JSON document in <id>.json
    suites,     \* the suite store of the GE context: id -> expectations of contract_<id>
    clock,      \* the last reading of datetime.now()
    geFailures, \* how many calls into the expectations engine have raised
    insOrder,   \* history: the stored ids in the order their files were first written
    last,       \* the last request served: what was asked and what was answered
    workers     \* requests in progress at the same time: worker -> its request and step

vars == <<files, suites, clock, geFailures, insOrder, last, workers>>

\* datetime.now(): the clock does not run backwards between two readings.
Now(t) == {u \in {t, t + 1} : u <= MaxClock}

\* ------------------------------------------------------------------ contract_manager.py

\* _create_expectations_suite, lines 124-185: the expectations of one field.
TypeExpectation(field) ==
    IF field.data_type \in {"integer", "float"}
    THEN << [expectation_type |-> "expect_column_values_to_be_of_type",
             column |-> field.name,
             kwargs |-> <<"type_", IF field.data_type = "integer" THEN "int64" ELSE "float64">>] >>
    ELSE << >>

NullExpectation(field) ==
    IF ~field.nullable
    THEN << [expectation_type |-> "expect_column_values_to_not_be_null",
             column |-> field.name, kwargs |-> << >>] >>
    ELSE << >>

ConstraintExpectation(field, constraint) ==
    LET constraint_name == constraint[1]
        constraint_value == constraint[2]
        numeric == field.data_type \in {"integer", "float"}
    IN  IF constraint_name = "min_value" /\ numeric
        THEN << [expectation_type |-> "expect_column_values_to_be_between",
                 column |-> field.name, kwargs |-> <<"min_value", constraint_value>>] >>
        ELSE IF constraint_name = "max_value" /\ numeric
        THEN << [expectation_type |-> "expect_column_values_to_be_between",
                 column |-> field.name, kwargs |-> <<"max_value", constraint_value>>] >>
        ELSE IF constraint_name = "allowed_values"
        THEN << [expectation_type |-> "expect_column_values_to_be_in_set",
                 column |-> field.name, kwargs |-> <<"value_set", constraint_value>>] >>
        ELSE << >>

FieldExpectations(field) ==
    << [expectation_type |-> "expect_column_to_exist",
        column |-> field.name, kwargs |-> << >>] >>
    \o TypeExpectation(field)
    \o NullExpectation(field)
    \o Concat([k \in 1..Len(field.constraints) |->
                  ConstraintExpectation(field, field.constraints[k])])

SuiteExpectations(fields) ==
    Concat([k \in 1..Len(fields) |-> FieldExpectations(fields[k])])

\* What the suite store holds after _create_expectations_suite(contract).  ge is
\* what the engine does: "ok", or "raise" when save_expectation_suite raises.  A
\* suite that did not exist was added (empty) by add_expectation_suite before.
GeOutcomes == IF geFailures < MaxGeFailures THEN {"ok", "raise"} ELSE {"ok"}

GeCount(ge) == IF ge = "ok" THEN geFailures ELSE geFailures + 1

_create_expectations_suite(store, id, fields, ge) ==
    IF ge = "ok" THEN Put(store, id, SuiteExpectations(fields))
    ELSE IF id \in DOMAIN store THEN store
    ELSE Put(store, id, << >>)

\* get_contract: None when the file does not exist, else the parsed document.
get_contract(dir, contract_id) ==
    IF contract_id \notin DOMAIN dir THEN << >>
    ELSE << JsonLoad(dir[contract_id]) >>

\* create_contract, lines 39-48: the id, the stamped contract, the directory.
\* Faulty variant: the submitted id is ignored and a new one is always drawn.
create_id_always_new(contract, uuid) ==
    IF uuid \in UuidPool THEN uuid ELSE "u1"

create_id(contract, uuid) ==
    IF contract.id = << >> \/ contract.id = <<"">> THEN uuid ELSE contract.id[1]

create_stamped(contract, id, t1, t2) ==
    [contract EXCEPT !.id = <<id>>, !.created_at = <<t1>>, !.updated_at = <<t2>>]

create_files(dir, contract, id, t1, t2) ==
    Put(dir, id, JsonDump(create_stamped(contract, id, t1, t2)))

\* update_contract, lines 78-86.
\* Faulty variant: the existence test is missing (update acts as an upsert).
update_exists_upsert(dir, contract_id) == TRUE

update_exists(dir, contract_id) == get_contract(dir, contract_id) # << >>

\* Faulty variant: updated_at is stamped only when the body carries none.
update_stamped_as_sent(contract_id, contract, t) ==
    [contract EXCEPT !.id = <<contract_id>>,
                     !.updated_at = IF @ = << >> THEN <<t>> ELSE @]

\* Faulty variant: the id that the body carries is kept.
update_stamped_keeps_body_id(contract_id, contract, t) ==
    [contract EXCEPT !.id = IF @ = << >> THEN <<contract_id>> ELSE @,
                     !.updated_at = <<t>>]

\* Faulty variant: the update stamps created_at as well.
update_stamped_resets_created_at(contract_id, contract, t) ==
    [contract EXCEPT !.id = <<contract_id>>, !.created_at = <<t>>, !.updated_at = <<t>>]

update_stamped(contract_id, contract, t) ==
    [contract EXCEPT !.id = <<contract_id>>, !.updated_at = <<t>>]

update_files(dir, contract_id, contract, t) ==
    Put(dir, contract_id, JsonDump(update_stamped(contract_id, contract, t)))

\* delete_contract, lines 95-107.
delete_exists(dir, contract_id) == contract_id \in DOMAIN dir

\* Faulty variant: the file is not unlinked.
delete_files_kept(dir, contract_id) == dir

delete_files(dir, contract_id) == Remove(dir, contract_id)

delete_suites(store, contract_id) == Remove(store, contract_id)

\* list_contracts, line 74: the sort key, and Python's stable sort with
\* reverse=True (elements with equal keys keep their order).
DatetimeMin == -1

SortKey(c) == IF c.created_at = << >> THEN DatetimeMin ELSE c.created_at[1]

RECURSIVE InsertDesc(_, _)
InsertDesc(sorted, c) ==
    IF sorted = << >> THEN << c >>
    ELSE IF SortKey(Head(sorted)) >= SortKey(c)
         THEN << Head(sorted) >> \o InsertDesc(Tail(sorted), c)
         ELSE << c >> \o sorted

RECURSIVE SortedDesc(_)
SortedDesc(cs) ==
    IF cs = << >> THEN << >>
    ELSE InsertDesc(SortedDesc(SubSeq(cs, 1, Len(cs) - 1)), cs[Len(cs)])

\* glob order is the directory's, whatever it is.
list_contracts(dir, globOrder) ==
    SortedDesc([k \in 1..Len(globOrder) |-> JsonLoad(dir[globOrder[k]])])

\* ------------------------------------------------------------------ validate_data

\* An uploaded file: the suffix of its name, whether pandas can read it, and the
\* dataframe read from it (column -> dtype and values; a value is Optional).
Column(dtype, values) == [dtype |-> dtype, values |-> values]

DataOrdersGood == [suffix |-> "csv", readable |-> TRUE,
                   columns |-> [order_id |-> Column("int64", << <<1>>, <<2>> >>)]]

DataOrdersBad == [suffix |-> "json", readable |-> TRUE,
                  columns |-> [order_id |-> Column("int64", << <<0>>, <<5>> >>)]]

DataUnreadable == [suffix |-> "csv", readable |-> FALSE, columns |-> << >>]

DataText == [suffix |-> "txt", readable |-> TRUE, columns |-> << >>]

Datasets == {DataOrdersGood, DataOrdersBad, DataUnreadable, DataText}

NonNull(values) == {values[k][1] : k \in {n \in 1..Len(values) : values[n] # << >>}}

\* The outcome of one expectation on a dataframe, as validator.validate()
\* reports it: an expectation on a column the dataframe lacks is reported failed.
\* Faulty variant: an expectation on a column the dataframe lacks is passed over
\* and counts as met.
ExpectationSuccess_skips_missing_column(e, columns) ==
    IF e.column \notin DOMAIN columns THEN TRUE
    ELSE LET col == columns[e.column]
         IN  CASE e.expectation_type = "expect_column_to_exist" -> TRUE
               [] e.expectation_type = "expect_column_values_to_be_of_type" ->
                      col.dtype = e.kwargs[2]
               [] e.expectation_type = "expect_column_values_to_not_be_null" ->
                      \A k \in 1..Len(col.values) : col.values[k] # << >>
               [] e.expectation_type = "expect_column_values_to_be_between" ->
                      \A v \in NonNull(col.values) :
                          IF e.kwargs[1] = "min_value" THEN v >= e.kwargs[2]
                          ELSE v <= e.kwargs[2]
               [] e.expectation_type = "expect_column_values_to_be_in_set" ->
                      \A v \in NonNull(col.values) : v \in e.kwargs[2]

ExpectationSuccess(e, columns) ==
    IF e.column \notin DOMAIN columns THEN FALSE
    ELSE LET col == columns[e.column]
         IN  CASE e.expectation_type = "expect_column_to_exist" -> TRUE
               [] e.expectation_type = "expect_column_values_to_be_of_type" ->
                      col.dtype = e.kwargs[2]
               [] e.expectation_type = "expect_column_values_to_not_be_null" ->
                      \A k \in 1..Len(col.values) : col.values[k] # << >>
               [] e.expectation_type = "expect_column_values_to_be_between" ->
                      \A v \in NonNull(col.values) :
                          IF e.kwargs[1] = "min_value" THEN v >= e.kwargs[2]
                          ELSE v <= e.kwargs[2]
               [] e.expectation_type = "expect_column_values_to_be_in_set" ->
                      \A v \in NonNull(col.values) : v \in e.kwargs[2]

ValidationResult(contract_id, success, timestamp, details, errors) ==
    [contract_id |-> contract_id, success |-> success, timestamp |-> timestamp,
     details |-> details, errors |-> errors, warnings |-> << >>]

\* Lines 222-244: the suite is run; one error per failing expectation.
\* Faulty variant: the run stops at the first expectation that fails.
RunSuite_stops_at_first_failure(contract_id, suite, columns, t) ==
    LET all == [k \in 1..Len(suite) |->
                   [expectation_type |-> suite[k].expectation_type,
                    column |-> suite[k].column,
                    success |-> ExpectationSuccess(suite[k], columns)]]
        stop == IF \E k \in 1..Len(all) : ~all[k].success
                THEN CHOOSE k \in 1..Len(all) :
                         ~all[k].success /\ \A j \in 1..(k - 1) : all[j].success
                ELSE Len(all)
        results == SubSeq(all, 1, stop)
        failed == SelectSeq(results, LAMBDA r : ~r.success)
    IN  ValidationResult(contract_id,
                         \A k \in 1..Len(results) : results[k].success,
                         t, results,
                         [k \in 1..Len(failed) |->
                             <<"Falha na expectativa", failed[k].expectation_type>>])

RunSuite(contract_id, suite, columns, t) ==
    LET results == [k \in 1..Len(suite) |->
                       [expectation_type |-> suite[k].expectation_type,
                        column |-> suite[k].column,
                        success |-> ExpectationSuccess(suite[k], columns)]]
        failed == SelectSeq(results, LAMBDA r : ~r.success)
    IN  ValidationResult(contract_id,
                         \A k \in 1..Len(results) : results[k].success,
                         t, results,
                         [k \in 1..Len(failed) |->
                             <<"Falha na expectativa", failed[k].expectation_type>>])

\* Faulty variant: the try/except of lines 202-253 is missing, so a failure to
\* read the data or to run the engine leaves the call with no error entry.
validate_data_without_except(dir, store, contract_id, data, t) ==
    IF get_contract(dir, contract_id) = << >>
    THEN ValidationResult(contract_id, FALSE, t, << >>, << <<"Contrato nao encontrado">> >>)
    ELSE IF data.suffix \notin {"csv", "json"}
    THEN ValidationResult(contract_id, FALSE, t, << >>,
                          << <<"Formato de arquivo nao suportado">> >>)
    ELSE IF ~data.readable \/ contract_id \notin DOMAIN store
    THEN ValidationResult(contract_id, FALSE, t, << >>, << >>)
    ELSE RunSuite(contract_id, store[contract_id], data.columns, t)

validate_data(dir, store, contract_id, data, t) ==
    IF get_contract(dir, contract_id) = << >>
    THEN ValidationResult(contract_id, FALSE, t, << >>, << <<"Contrato nao encontrado">> >>)
    ELSE IF data.suffix \notin {"csv", "json"}
    THEN ValidationResult(contract_id, FALSE, t, << >>,
                          << <<"Formato de arquivo nao suportado">> >>)
    ELSE IF ~data.readable \/ contract_id \notin DOMAIN store
    THEN ValidationResult(contract_id, FALSE, t, << >>, << <<"Erro na validacao">> >>)
    ELSE RunSuite(contract_id, store[contract_id], data.columns, t)

\* Lines 190-253: validate_data writes nothing to the contracts directory.
\* Faulty variant: a failed run marks the stored contract as failed.
validate_files_marks_failed(dir, contract_id, result) ==
    IF contract_id \in DOMAIN dir /\ ~result.success
    THEN [dir EXCEPT ![contract_id].status = ContractStatus.FAILED]
    ELSE dir

validate_files(dir, contract_id, result) == dir

\* ------------------------------------------------------------------ api.py

\* ContractManager(): contracts_dir.mkdir(exist_ok=True) keeps what is there.
\* Faulty variant: the directory is created anew, dropping what was there.
InitManager_fresh_dir(dir) == << >>

InitManager(dir) == dir

\* The metadata sync after a create or update.  What happens to it: the
\* integration is disabled; the catalog answers 200 or 201 ("synced"); the
\* catalog answers another status ("failed"); building or posting the request
\* raises ("raised").
SyncOutcomes == {"disabled", "synced", "failed", "raised"}

is_enabled(sync) == sync # "disabled"

\* sync_contract, lines 45-68: <<b>> is the value returned, << >> an exception
\* that leaves the call.
\* Faulty variant: the try/except is missing, so an exception leaves the call.
sync_contract_reraises(sync) ==
    IF ~is_enabled(sync) THEN <<FALSE>>
    ELSE IF sync = "raised" THEN << >>
    ELSE << sync = "synced" >>

sync_contract(sync) ==
    IF ~is_enabled(sync) THEN <<FALSE>>
    ELSE IF sync = "raised" THEN <<FALSE>>
    ELSE << sync = "synced" >>

\* api.py lines 48-49 and 72-73: whether the sync step of a handler raises.
SyncRaises(sync) == is_enabled(sync) /\ sync_contract(sync) = << >>

Served(op, id, arg, ret, http, sync) ==
    [op |-> op, id |-> id, arg |-> arg, ret |-> ret, http |-> http, sync |-> sync]

\* The workers that serve requests at the same time over one contracts
\* directory, and a worker that serves none.
Workers == {1, 2}

Pending == [kind |-> "pending", doc |-> << >>]

Idle == [op |-> "idle", id |-> "", arg |-> << >>, todo |-> << >>, held |-> << >>,
         ret |-> Pending]

\* One request at a time: no worker is in the middle of a request.
Init ==
    /\ files = << >>
    /\ suites = << >>
    /\ clock = 1
    /\ geFailures = 0
    /\ insOrder = << >>
    /\ last = Served("start", "", << >>, << >>, 0, "none")
    /\ workers = [w \in Workers |-> Idle]

\* POST /contracts
ApiCreateContract ==
    \E body \in Payloads, sid \in SubmittedIds, ge \in GeOutcomes :
    \E sync \in IF ge = "ok" THEN SyncOutcomes ELSE {"skipped"} :
    \E uuid \in IF sid \in {<< >>, <<"">>} THEN UuidPool \ DOMAIN files ELSE {sid[1]} :
    \E t1 \in Now(clock) : \E t2 \in Now(t1) :
        LET contract == [body EXCEPT !.id = sid]
            id == create_id(contract, uuid)
        IN  /\ files' = create_files(files, contract, id, t1, t2)
            /\ suites' = _create_expectations_suite(suites, id, contract.fields, ge)
            /\ clock' = t2
            /\ geFailures' = GeCount(ge)
            /\ insOrder' = IF id \in DOMAIN files THEN insOrder ELSE Append(insOrder, id)
            /\ last' = IF ge = "ok" /\ ~SyncRaises(sync)
                       THEN Served("create", "", contract, <<id>>, 200, sync)
                       ELSE Served("create", "", contract, << >>, 400, sync)
            /\ UNCHANGED workers

\* GET /contracts/{contract_id}
ApiGetContract ==
    \E contract_id \in Ids :
        LET contract == get_contract(files, contract_id)
        IN  /\ last' = Served("get", contract_id, << >>, contract,
                              IF contract = << >> THEN 404 ELSE 200, "none")
            /\ UNCHANGED <<files, suites, clock, geFailures, insOrder, workers>>

\* GET /contracts
ApiListContracts ==
    \E globOrder \in Enumerations(DOMAIN files) :
        /\ last' = Served("list", "", << >>, list_contracts(files, globOrder), 200, "none")
        /\ UNCHANGED <<files, suites, clock, geFailures, insOrder, workers>>

\* PUT /contracts/{contract_id}
ApiUpdateContract ==
    \E contract_id \in Ids, body \in Payloads, sid \in SubmittedIds \ {<<"">>} :
        LET contract == [body EXCEPT !.id = sid]
        IN  IF ~update_exists(files, contract_id)
            THEN /\ last' = Served("update", contract_id, contract, <<FALSE>>, 404, "skipped")
                 /\ UNCHANGED <<files, suites, clock, geFailures, insOrder, workers>>
            ELSE \E t \in Now(clock), ge \in GeOutcomes :
                 \E sync \in IF ge = "ok" THEN SyncOutcomes ELSE {"skipped"} :
                 /\ files' = update_files(files, contract_id, contract, t)
                 /\ suites' = _create_expectations_suite(suites, contract_id,
                                                         contract.fields, ge)
                 /\ clock' = t
                 /\ last' = IF ge = "ok" /\ ~SyncRaises(sync)
                            THEN Served("update", contract_id, contract, <<TRUE>>, 200, sync)
                            ELSE Served("update", contract_id, contract, << >>, 500, sync)
                 /\ geFailures' = GeCount(ge)
                 /\ UNCHANGED <<insOrder, workers>>

\* DELETE /contracts/{contract_id}; a failing delete_expectation_suite is passed over.
ApiDeleteContract ==
    \E contract_id \in Ids :
        IF ~delete_exists(files, contract_id)
        THEN /\ last' = Served("delete", contract_id, << >>, <<FALSE>>, 404, "none")
             /\ UNCHANGED <<files, suites, clock, geFailures, insOrder, workers>>
        ELSE \E ge \in GeOutcomes :
             /\ files' = delete_files(files, contract_id)
             /\ suites' = IF ge = "ok" THEN delete_suites(suites, contract_id) ELSE suites
             /\ insOrder' = RemoveFromSeq(insOrder, contract_id)
             /\ last' = Served("delete", contract_id, << >>, <<TRUE>>, 200, "none")
             /\ geFailures' = GeCount(ge)
             /\ UNCHANGED <<clock, workers>>

\* POST /contracts/{contract_id}/validate: the answer is the result, with 200.
ApiValidateContract ==
    \E contract_id \in Ids, data \in Datasets : \E t \in Now(clock) :
        LET result == validate_data(files, suites, contract_id, data, t)
        IN  /\ files' = validate_files(files, contract_id, result)
            /\ clock' = t
            /\ last' = Served("validate", contract_id, data, result, 200, "none")
            /\ UNCHANGED <<suites, geFailures, insOrder, workers>>

\* GET /contracts/{contract_id}/status
ApiGetContractStatus ==
    \E contract_id \in Ids :
        LET contract == get_contract(files, contract_id)
        IN  /\ last' = IF contract = << >>
                       THEN Served("status", contract_id, << >>, << >>, 404, "none")
                       ELSE Served("status", contract_id, << >>,
                                   [contract_id |-> contract_id,
                                    status |-> contract[1].status,
                                    last_updated |-> contract[1].updated_at],
                                   200, "none")
            /\ UNCHANGED <<files, suites, clock, geFailures, insOrder, workers>>

\* POST /contracts/{contract_id}/activate
ApiActivateContract ==
    \E contract_id \in Ids :
        LET found == get_contract(files, contract_id)
        IN  IF found = << >>
            THEN /\ last' = Served("activate", contract_id, << >>, << >>, 404, "none")
                 /\ UNCHANGED <<files, suites, clock, geFailures, insOrder, workers>>
            ELSE \E t \in Now(clock), ge \in GeOutcomes :
                 LET contract == [found[1] EXCEPT !.status = ContractStatus.ACTIVE]
                 IN  /\ files' = IF update_exists(files, contract_id)
                                 THEN update_files(files, contract_id, contract, t)
                                 ELSE files
                     /\ suites' = _create_expectations_suite(suites, contract_id,
                                                             contract.fields, ge)
                     /\ clock' = t
                     /\ last' = Served("activate", contract_id, << >>, << >>,
                                       IF ge = "ok" THEN 200 ELSE 500, "none")
                     /\ geFailures' = GeCount(ge)
                     /\ UNCHANGED <<insOrder, workers>>

\* The process is stopped and started again over the same directories.
Restart ==
    /\ files' = InitManager(files)
    /\ last' = Served("restart", "", << >>, << >>, 0, "none")
    /\ UNCHANGED <<suites, clock, geFailures, insOrder, workers>>

Next ==
    \/ ApiCreateContract
    \/ ApiGetContract
    \/ ApiListContracts
    \/ ApiUpdateContract
    \/ ApiDeleteContract
    \/ ApiValidateContract
    \/ ApiGetContractStatus
    \/ ApiActivateContract
    \/ Restart

Spec == Init /\ [][Next]_vars

\* ------------------------------------------------------------------ requests served at the same time

\* Neither the handlers nor ContractManager take a lock, and every worker of the
\* server (and every thread that shares a manager) works on the same contracts
\* directory.  A request is then a sequence of steps on the directory, one per
\* file operation, and the steps of two requests interleave.

\* A file that json.load cannot parse.  open(contract_file, 'w') leaves the file
\* empty until the handle is closed (json.dump writes into the buffer of the
\* handle).  A writer writes from offset 0 of its own handle: over a longer text
\* that another writer wrote after the open, it leaves its text followed by the
\* rest of the other, n bytes in all.
EmptyFile == [truncated |-> TRUE]

Garbled(n) == [garbled |-> TRUE, length |-> n]

\* len() of the strings that occur in the documents.
StrLen(str) ==
    CASE str = "a" -> 1
      [] str = "u1" -> 2
      [] str = "orders_contract" -> 15
      [] str = "users_contract" -> 14
      [] str = "orders" -> 6
      [] str = "users" -> 5
      [] str = "draft" -> 5
      [] str = "active" -> 6
      [] str = "deprecated" -> 10
      [] str = "failed" -> 6
      [] str = "1.0.0" -> 5
      [] str = "order_id" -> 8
      [] str = "email" -> 5
      [] str = "age" -> 3
      [] str = "integer" -> 7
      [] str = "string" -> 6
      [] str = "data-team" -> 9
      [] str = "pii" -> 3
      [] str = "min_value" -> 9
      [] str = "max_value" -> 9
      [] str = "min_length" -> 10

NumLen(n) == IF n < 10 THEN 1 ELSE IF n < 100 THEN 2 ELSE 3

Quoted(str) == StrLen(str) + 2

\* null, or the string in quotes.
OptionalLen(o) == IF o = << >> THEN 4 ELSE Quoted(o[1])

\* null, or str(datetime) in quotes: "YYYY-MM-DD HH:MM:SS.ffffff".
DatetimeLen(d) == IF d = << >> THEN 4 ELSE 28

RECURSIVE Sum(_)
Sum(ns) == IF ns = << >> THEN 0 ELSE Head(ns) + Sum(Tail(ns))

\* A list with indent=2, its closing bracket at depth d: [] when empty, else one
\* item per line at depth d + 2, commas between, and the two brackets.
ListLen(items, d) ==
    IF items = << >> THEN 2
    ELSE 2 + Sum([k \in 1..Len(items) |-> d + 2 + items[k]])
           + (Len(items) - 1) + Len(items) + d + 1

\* The constraints of a field, a dict at depth 6 with its items at depth 8.
ConstraintsLen(constraints) ==
    IF constraints = << >> THEN 2
    ELSE 2 + Sum([k \in 1..Len(constraints) |->
                     8 + Quoted(constraints[k][1]) + 2 + NumLen(constraints[k][2])])
           + (Len(constraints) - 1) + Len(constraints) + 6 + 1

\* A field, a dict at depth 4: five items at depth 6 (keys of 43 characters in
\* all, each with quotes, a colon and a space), four commas, five line ends.
FieldLen(field) ==
    109 + Quoted(field.name) + Quoted(field.data_type)
        + (IF field.nullable THEN 4 ELSE 5) + 4 + ConstraintsLen(field.constraints)

\* The text json.dump(contract.dict(), f, indent=2, default=str) writes: eleven
\* items at depth 2 (keys of 77 characters in all), ten commas, eleven line ends.
JsonLength(doc) ==
    167 + OptionalLen(doc.id) + Quoted(doc.name) + OptionalLen(doc.description)
        + Quoted(doc.version) + Quoted(doc.status) + Quoted(doc.dataset_name)
        + ListLen([k \in 1..Len(doc.fields) |-> FieldLen(doc.fields[k])], 2)
        + DatetimeLen(doc.created_at) + DatetimeLen(doc.updated_at)
        + OptionalLen(doc.owner)
        + ListLen([k \in 1..Len(doc.tags) |-> Quoted(doc.tags[k])], 2)

IsDocument(content) == "name" \in DOMAIN content

FileLength(content) ==
    IF content = EmptyFile THEN 0
    ELSE IF IsDocument(content) THEN JsonLength(content)
    ELSE content.length

Answer(doc) == [kind |-> "ok", doc |-> doc]

Raised == [kind |-> "raised", doc |-> << >>]

WriterOps == {"create", "update", "delete", "activate"}

\* The file operations of each request, in the order of the code.  update_contract
\* starts with a get_contract; activate_contract calls get_contract and then
\* update_contract.
Steps(op) ==
    CASE op = "create"   -> <<"open", "dump">>
      [] op = "update"   -> <<"exists", "load", "open", "dump">>
      [] op = "delete"   -> <<"exists", "unlink">>
      [] op = "activate" -> <<"exists", "load", "exists", "load", "open", "dump">>
      [] op = "get"      -> <<"exists", "load">>
      [] op = "list"     -> <<"glob", "loadall">>

\* held is the contract the request will write (create, update: the body).
Request(op, id, arg) ==
    [op |-> op, id |-> id, arg |-> arg, todo |-> Steps(op),
     held |-> IF op \in {"create", "update"} THEN <<arg>> ELSE << >>,
     ret |-> Pending]

Requests ==
    {Request("create", i, [b EXCEPT !.id = <<i>>]) : i \in Ids, b \in Payloads}
    \cup {Request("update", i, b) : i \in Ids, b \in Payloads}
    \cup {Request(op, i, << >>) : op \in {"delete", "activate", "get"}, i \in Ids}
    \cup {Request("list", "", << >>)}

\* open(contract_file, 'r'), json.load, DataContract(**data).
ReadFile(dir, id) ==
    IF id \notin DOMAIN dir THEN Raised
    ELSE IF ~IsDocument(dir[id]) THEN Raised
    ELSE Answer(<< JsonLoad(dir[id]) >>)

AtStep(w, step) == workers[w].todo # << >> /\ Head(workers[w].todo) = step

Advance(w) == [workers EXCEPT ![w].todo = Tail(@)]

Finish(w, ret) == [workers EXCEPT ![w].todo = << >>, ![w].ret = ret]

\* What a request answers when its contract_file.exists() is false: get answers
\* None; update_contract and delete_contract answer False; activate_contract
\* answers 404 from its own get_contract and ignores what update_contract returns.
NotFound(r) ==
    IF r.op = "get" THEN Answer(<< >>)
    ELSE IF r.op = "activate" /\ r.held # << >> THEN Answer(<<TRUE>>)
    ELSE Answer(<<FALSE>>)

\* The directory and the suite store before the requests: one contract, "a".
InitialDir == create_files(<< >>, [PayloadOrders EXCEPT !.id = <<"a">>], "a", 1, 1)

InitialSuites == _create_expectations_suite(<< >>, "a", PayloadOrders.fields, "ok")

InitWorkers ==
    /\ files = InitialDir
    /\ suites = InitialSuites
    /\ clock = 1
    /\ geFailures = MaxGeFailures
    /\ insOrder = <<"a">>
    /\ last = Served("start", "", << >>, << >>, 0, "none")
    /\ workers = [w \in Workers |-> Idle]

\* A worker takes a request.
Receive(w) ==
    /\ workers[w] = Idle
    /\ \E r \in Requests : workers' = [workers EXCEPT ![w] = r]
    /\ UNCHANGED <<files, suites, clock, geFailures, insOrder, last>>

\* contract_file.exists()
StepExists(w) ==
    /\ AtStep(w, "exists")
    /\ workers' = IF workers[w].id \in DOMAIN files THEN Advance(w)
                  ELSE Finish(w, NotFound(workers[w]))
    /\ UNCHANGED <<files, suites, clock, geFailures, insOrder, last>>

\* get_contract lines 61-64.  activate_contract keeps the contract it read, with
\* the status set to active; update_contract only tests what it read.
StepLoad(w) ==
    /\ AtStep(w, "load")
    /\ LET r == workers[w]
           got == ReadFile(files, r.id)
       IN  workers' =
               IF got.kind = "raised" THEN Finish(w, Raised)
               ELSE IF r.op = "get" THEN Finish(w, got)
               ELSE IF r.op = "activate" /\ r.held = << >>
               THEN [workers EXCEPT
                        ![w].todo = Tail(@),
                        ![w].held = << [got.doc[1] EXCEPT !.status = ContractStatus.ACTIVE] >>]
               ELSE Advance(w)
    /\ UNCHANGED <<files, suites, clock, geFailures, insOrder, last>>

\* open(contract_file, 'w'): the file is created or truncated.
StepOpen(w) ==
    /\ AtStep(w, "open")
    /\ LET r == workers[w]
       IN  /\ files' = Put(files, r.id, EmptyFile)
           /\ insOrder' = IF r.id \in DOMAIN files THEN insOrder ELSE Append(insOrder, r.id)
    /\ workers' = Advance(w)
    /\ UNCHANGED <<suites, clock, geFailures, last>>

\* What json.dump and the close of the handle leave in the directory: nothing
\* when the file was unlinked after the open (the bytes go to the unlinked
\* file); the document when the file is not longer than the document; else the
\* document followed by the rest of what another writer wrote.
Dumped(dir, r, t) ==
    LET written == IF r.op = "create"
                   THEN create_files(dir, r.held[1], create_id(r.held[1], r.id), t, t)
                   ELSE update_files(dir, r.id, r.held[1], t)
    IN  IF r.id \notin DOMAIN dir THEN dir
        ELSE IF FileLength(dir[r.id]) <= JsonLength(written[r.id]) THEN written
        ELSE Put(dir, r.id, Garbled(FileLength(dir[r.id])))

\* json.dump(contract.dict(), f), then _create_expectations_suite(contract).
StepDump(w) ==
    /\ AtStep(w, "dump")
    /\ LET r == workers[w]
       IN  /\ files' = Dumped(files, r, clock)
           /\ suites' = _create_expectations_suite(suites, r.id, r.held[1].fields, "ok")
           /\ workers' = Finish(w, IF r.op = "create" THEN Answer(<<r.id>>)
                                   ELSE Answer(<<TRUE>>))
    /\ UNCHANGED <<clock, geFailures, insOrder, last>>

\* contract_file.unlink(), then delete_expectation_suite.
StepUnlink(w) ==
    /\ AtStep(w, "unlink")
    /\ LET r == workers[w]
       IN  IF r.id \notin DOMAIN files
           THEN /\ workers' = Finish(w, Raised)
                /\ UNCHANGED <<files, suites, insOrder>>
           ELSE /\ files' = delete_files(files, r.id)
                /\ suites' = delete_suites(suites, r.id)
                /\ insOrder' = RemoveFromSeq(insOrder, r.id)
                /\ workers' = Finish(w, Answer(<<TRUE>>))
    /\ UNCHANGED <<clock, geFailures, last>>

\* self.contracts_dir.glob("*.json")
StepGlob(w) ==
    /\ AtStep(w, "glob")
    /\ \E globOrder \in Enumerations(DOMAIN files) :
           workers' = [workers EXCEPT ![w].todo = Tail(@), ![w].held = << globOrder >>]
    /\ UNCHANGED <<files, suites, clock, geFailures, insOrder, last>>

\* list_contracts lines 69-74: every file of the glob is read, then the sort.
StepLoadAll(w) ==
    /\ AtStep(w, "loadall")
    /\ LET globOrder == workers[w].held[1]
       IN  workers' =
               IF \E k \in 1..Len(globOrder) : ReadFile(files, globOrder[k]).kind = "raised"
               THEN Finish(w, Raised)
               ELSE Finish(w, Answer(list_contracts(files, globOrder)))
    /\ UNCHANGED <<files, suites, clock, geFailures, insOrder, last>>

NextWorkers ==
    \E w \in Workers :
        \/ Receive(w)
        \/ StepExists(w)
        \/ StepLoad(w)
        \/ StepOpen(w)
        \/ StepDump(w)
        \/ StepUnlink(w)
        \/ StepGlob(w)
        \/ StepLoadAll(w)

SpecWorkers == InitWorkers /\ [][NextWorkers]_vars

\* The directory after request r has run alone, from its first step to its last.
Serial(dir, r) ==
    CASE r.op = "create" ->
             create_files(dir, r.arg, create_id(r.arg, r.id), clock, clock)
      [] r.op = "update" ->
             IF update_exists(dir, r.id) THEN update_files(dir, r.id, r.arg, clock) ELSE dir
      [] r.op = "delete" ->
             IF delete_exists(dir, r.id) THEN delete_files(dir, r.id) ELSE dir
      [] r.op = "activate" ->
             IF get_contract(dir, r.id) = << >> THEN dir
             ELSE update_files(dir, r.id,
                               [get_contract(dir, r.id)[1] EXCEPT
                                   !.status = ContractStatus.ACTIVE],
                               clock)
      [] OTHER -> dir

\* ------------------------------------------------------------------ the validation pipeline

\* The pipeline by itself: contracts are constructed and handed to
\* ContractManager.create_contract, data is validated against what is stored,
\* and schemas of schema.py are converted by ge_integration.py.  Engine failures
\* at create and the metadata sync are left to Spec.

\* FieldContract and DataContract take what pydantic's types admit: any str as a
\* name, any list as fields.
FieldBlank == [name |-> "", data_type |-> "string", nullable |-> TRUE,
               constraints |-> << >>]

FieldLabel == [name |-> "email", data_type |-> "string", nullable |-> FALSE,
               constraints |-> << <<"min_value", 1>> >>]

PipelineFields ==
    {FieldsOrders, FieldsUsers, << >>, << FieldBlank, FieldOrderId, FieldOrderId >>,
     << FieldLabel >>}

PipelinePayloads ==
    {DataContract(<<"a">>, "orders_contract", ContractStatus.DRAFT, "orders",
                  fields, << >>, << >>, << >>, << >>) : fields \in PipelineFields}

\* Uploaded files for the users contract: as the contract asks; without the age
\* column; with an age column of another dtype, a null and a value out of range.
DataUsersGood == [suffix |-> "csv", readable |-> TRUE,
                  columns |-> [email |-> Column("object", << <<"x">>, << >> >>),
                               age |-> Column("int64", << <<30>>, <<40>> >>)]]

DataUsersNoAge == [suffix |-> "csv", readable |-> TRUE,
                   columns |-> [email |-> Column("object", << <<"x">>, <<"y">> >>)]]

DataUsersBad == [suffix |-> "json", readable |-> TRUE,
                 columns |-> [email |-> Column("object", << <<"x">>, <<"y">> >>),
                              age |-> Column("float64", << <<130>>, << >> >>)]]

PipelineDatasets == Datasets \cup {DataUsersGood, DataUsersNoAge, DataUsersBad}

\* schema.py: ValidationRule, SchemaField and DataSchema, with the defaults of
\* the classes; created_at and updated_at are datetime.now() at construction.
ValidationRule(type, value) == [type |-> type, value |-> value, message |-> << >>]

SchemaField(name, data_type, required, validation_rules) ==
    [name |-> name, data_type |-> data_type, required |-> required,
     description |-> << >>, validation_rules |-> validation_rules,
     default_value |-> << >>]

DataSchema(name, fields, t) ==
    [name |-> name, version |-> "1.0.0", description |-> << >>, fields |-> fields,
     created_at |-> t, updated_at |-> t, tags |-> << >>]

SchemaFieldLists ==
    {<< SchemaField("customer_id", "integer", TRUE, << ValidationRule("min_value", 1) >>),
        SchemaField("email", "string", TRUE,
                    << ValidationRule("pattern", "^[^@]+@[^@]+$"),
                       ValidationRule("unique", TRUE) >>) >>,
     << SchemaField("signup", "date", FALSE, << ValidationRule("not_null", TRUE) >>),
        SchemaField("age", "integer", TRUE,
                    << ValidationRule("pattern", "^a"), ValidationRule("max_length", 3) >>) >>,
     << >>,
     << SchemaField("", "string", TRUE, << >>),
        SchemaField("email", "string", TRUE, << >>),
        SchemaField("email", "float", FALSE, << >>) >>}

\* ge_integration.py, _convert_validation_rule: << >> is None.
_convert_validation_rule(column_name, rule) ==
    CASE rule.type = "min_length" ->
             << [expectation_type |-> "expect_column_value_lengths_to_be_between",
                 column |-> column_name, kwargs |-> <<"min_value", rule.value>>] >>
      [] rule.type = "max_length" ->
             << [expectation_type |-> "expect_column_value_lengths_to_be_between",
                 column |-> column_name, kwargs |-> <<"max_value", rule.value>>] >>
      [] rule.type = "min_value" ->
             << [expectation_type |-> "expect_column_values_to_be_between",
                 column |-> column_name, kwargs |-> <<"min_value", rule.value>>] >>
      [] rule.type = "max_value" ->
             << [expectation_type |-> "expect_column_values_to_be_between",
                 column |-> column_name, kwargs |-> <<"max_value", rule.value>>] >>
      [] rule.type = "pattern" ->
             << [expectation_type |-> "expect_column_values_to_match_regex",
                 column |-> column_name, kwargs |-> <<"regex", rule.value>>] >>
      [] rule.type = "unique" ->
             << [expectation_type |-> "expect_column_values_to_be_unique",
                 column |-> column_name, kwargs |-> << >>] >>
      [] OTHER -> << >>

\* convert_schema_to_expectations, lines 90-123: the expectations of one field.
GeFieldExpectations(field) ==
    (IF field.required
     THEN << [expectation_type |-> "expect_column_values_to_not_be_null",
              column |-> field.name, kwargs |-> << >>] >>
     ELSE << >>)
    \o (IF field.data_type \in {"string", "integer", "float", "boolean"}
        THEN << [expectation_type |-> "expect_column_values_to_be_of_type",
                 column |-> field.name,
                 kwargs |-> <<"type_", CASE field.data_type = "string" -> "str"
                                         [] field.data_type = "integer" -> "int"
                                         [] field.data_type = "float" -> "float"
                                         [] field.data_type = "boolean" -> "bool">>] >>
        ELSE << >>)
    \o Concat([k \in 1..Len(field.validation_rules) |->
                  _convert_validation_rule(field.name, field.validation_rules[k])])

convert_schema_to_expectations(data_schema) ==
    << [expectation_type |-> "expect_table_columns_to_match_ordered_list",
        column |-> "",
        kwargs |-> <<"column_list", [k \in 1..Len(data_schema.fields) |->
                                        data_schema.fields[k].name]>>] >>
    \o Concat([k \in 1..Len(data_schema.fields) |->
                  GeFieldExpectations(data_schema.fields[k])])

InitPipeline ==
    /\ files = << >>
    /\ suites = << >>
    /\ clock = 1
    /\ geFailures = MaxGeFailures
    /\ insOrder = << >>
    /\ last = Served("start", "", << >>, << >>, 0, "none")
    /\ workers = [w \in Workers |-> Idle]

\* ContractManager.create_contract(contract)
CreateContract ==
    \E contract \in PipelinePayloads : \E t1 \in Now(clock) : \E t2 \in Now(t1) :
        LET id == create_id(contract, "u1")
        IN  /\ files' = create_files(files, contract, id, t1, t2)
            /\ suites' = _create_expectations_suite(suites, id, contract.fields, "ok")
            /\ clock' = t2
            /\ insOrder' = IF id \in DOMAIN files THEN insOrder ELSE Append(insOrder, id)
            /\ last' = Served("create", "", contract, <<id>>, 200, "none")
            /\ UNCHANGED <<geFailures, workers>>

\* ContractManager.validate_data(contract_id, data_path)
ValidateData ==
    \E contract_id \in Ids \ UuidPool, data \in PipelineDatasets : \E t \in Now(clock) :
        LET result == validate_data(files, suites, contract_id, data, t)
        IN  /\ files' = validate_files(files, contract_id, result)
            /\ clock' = t
            /\ last' = Served("validate", contract_id, data, result, 200, "none")
            /\ UNCHANGED <<suites, geFailures, insOrder, workers>>

\* ContractManager(contracts_dir, ge_dir), lines 21-35: the suites live in ge_dir,
\* the contracts in contracts_dir.  A manager constructed on the same contracts_dir
\* with an empty ge_dir has the contracts and none of the suites; get_validator
\* then raises for a stored contract.
SuiteStoreCleared ==
    /\ suites # << >>
    /\ suites' = << >>
    /\ last' = Served("clear", "", << >>, << >>, 0, "none")
    /\ UNCHANGED <<files, clock, geFailures, insOrder, workers>>

\* GreatExpectationsValidator.convert_schema_to_expectations(DataSchema(...))
ConvertSchema ==
    \E fields \in SchemaFieldLists :
        LET data_schema == DataSchema("customers", fields, clock)
        IN  /\ last' = Served("convert", "", data_schema,
                              convert_schema_to_expectations(data_schema), 0, "none")
            /\ UNCHANGED <<files, suites, clock, geFailures, insOrder, workers>>

NextPipeline ==
    \/ CreateContract
    \/ ValidateData
    \/ SuiteStoreCleared
    \/ ConvertSchema

SpecPipeline == InitPipeline /\ [][NextPipeline]_vars

\* ------------------------------------------------------------------ the validators on dataframes

\* GreatExpectationsValidator (ge_integration.py) and DataValidator (validator.py)
\* validate a dataframe against a schema of schema.py.  Here suites is the suite
\* store of the context of GreatExpectationsValidator; the suite
\* f"{contract.id}_suite" is kept under the contract's id.

\* A dataframe of two rows: the order of its columns and the columns.  The
\* string column has dtype object (as read by pandas) or dtype string.
Frame(order, columns) == [order |-> order, columns |-> columns, rows |-> 2]

Frames(str_dtype) ==
    LET ids(v1, v2) == Column("int64", << <<v1>>, <<v2>> >>)
        emails(v1, v2) == Column(str_dtype, << <<v1>>, <<v2>> >>)
    IN  {Frame(<<"customer_id", "email">>,
               [customer_id |-> ids(1, 2), email |-> emails("x", "y")]),
         Frame(<<"email", "customer_id">>,
               [customer_id |-> ids(1, 2), email |-> emails("x", "y")]),
         Frame(<<"customer_id", "email", "note">>,
               [customer_id |-> ids(1, 2), email |-> emails("x", "y"),
                note |-> Column("object", << <<"n">>, << >> >>)]),
         Frame(<<"customer_id", "email">>,
               [customer_id |-> ids(1, 2), email |-> emails("x", "x")]),
         Frame(<<"customer_id", "email">>,
               [customer_id |-> ids(2, 2), email |-> emails("x", "y")]),
         Frame(<<"customer_id", "email">>,
               [customer_id |-> ids(0, 2), email |-> emails("x", "y")])}

\* Two versions of the customers schema.
ValidatorSchemas ==
    {<< SchemaField("customer_id", "integer", TRUE, << ValidationRule("min_value", 1) >>),
        SchemaField("email", "string", TRUE, << ValidationRule("unique", TRUE) >>) >>,
     << SchemaField("customer_id", "integer", TRUE, << ValidationRule("min_value", 2) >>),
        SchemaField("email", "string", FALSE, << >>) >>}

\* The contract object that validate_contract_data reads: id, name, owner and
\* data_schema (ge_integration.py lines 251, 260, 265-269).
SchemaContract(id, data_schema) ==
    [id |-> id, name |-> "customers_contract", owner |-> "data-team",
     data_schema |-> data_schema]

\* ge_integration.py: the outcome validator.validate() reports for one
\* expectation, for the expectation types the schemas above compile to.
GeExpectationSuccess(e, df) ==
    IF e.expectation_type = "expect_table_columns_to_match_ordered_list"
    THEN df.order = e.kwargs[2]
    ELSE IF e.column \notin DOMAIN df.columns THEN FALSE
    ELSE LET col == df.columns[e.column]
         IN  CASE e.expectation_type = "expect_column_values_to_not_be_null" ->
                      \A k \in 1..Len(col.values) : col.values[k] # << >>
               [] e.expectation_type = "expect_column_values_to_be_of_type" ->
                      col.dtype = (CASE e.kwargs[2] = "str" -> "object"
                                     [] e.kwargs[2] = "int" -> "int64"
                                     [] e.kwargs[2] = "float" -> "float64"
                                     [] e.kwargs[2] = "bool" -> "bool")
               [] e.expectation_type = "expect_column_values_to_be_between" ->
                      \A v \in NonNull(col.values) :
                          IF e.kwargs[1] = "min_value" THEN v >= e.kwargs[2]
                          ELSE v <= e.kwargs[2]
               [] e.expectation_type = "expect_column_values_to_be_unique" ->
                      \A i, j \in 1..Len(col.values) :
                          (col.values[i] # << >> /\ col.values[i] = col.values[j]) => i = j

\* GreatExpectationsValidator.validate_dataframe, lines 188-244.
ge_validate_dataframe(df, suite, batch_id) ==
    LET results == [k \in 1..Len(suite) |->
                       [expectation_type |-> suite[k].expectation_type,
                        column |-> suite[k].column,
                        kwargs |-> suite[k].kwargs,
                        success |-> GeExpectationSuccess(suite[k], df)]]
        failed == {k \in 1..Len(results) : ~results[k].success}
    IN  [success |-> failed = {},
         batch_id |-> batch_id,
         total_expectations |-> Len(results),
         successful_expectations |-> Len(results) - Cardinality(failed),
         failed_expectations |-> Cardinality(failed),
         results |-> results]

\* create_expectation_suite, lines 163-186 (overwrite_existing=True).
create_expectation_suite(store, data_schema, suite_name) ==
    Put(store, suite_name, convert_schema_to_expectations(data_schema))

\* validate_contract_data, lines 250-260: the suite store after the call.  A
\* suite that exists under the name is used as it is.
ge_contract_suites(store, contract) ==
    IF contract.id \in DOMAIN store THEN store
    ELSE create_expectation_suite(store, contract.data_schema, contract.id)

\* validator.py, _convert_data_type.
_convert_data_type(data_type) ==
    CASE data_type = "string" -> "string"
      [] data_type = "integer" -> "int64"
      [] data_type = "float" -> "float64"
      [] data_type = "boolean" -> "bool"
      [] data_type \in {"date", "datetime"} -> "string"
      [] OTHER -> "object"

\* _convert_validation_rules, lines 95-119: a unique rule gives no check.
_convert_validation_rules(validation_rules) ==
    SelectSeq(validation_rules,
              LAMBDA rule : rule.type \in {"min_length", "max_length", "min_value",
                                           "max_value", "pattern", "not_null"})

\* convert_schema_to_pandera, lines 46-79: the columns of the DataFrameSchema.
convert_schema_to_pandera(data_schema) ==
    [name |-> data_schema.name,
     columns |-> [k \in 1..Len(data_schema.fields) |->
                     [name |-> data_schema.fields[k].name,
                      dtype |-> _convert_data_type(data_schema.fields[k].data_type),
                      checks |-> _convert_validation_rules(
                                     data_schema.fields[k].validation_rules),
                      nullable |-> ~data_schema.fields[k].required]]]

\* schema.validate(df, lazy=True): the errors that SchemaErrors carries, column by
\* column: the column is missing; its dtype is another; it holds a null and is
\* not nullable; a check fails on a value.
SchemaErrorsOf(schema, df) ==
    LET CheckHolds(check, v) ==
            CASE check.type = "min_value" -> v >= check.value
              [] check.type = "max_value" -> v <= check.value
              [] OTHER -> TRUE
        ColumnErrors(c) ==
            IF c.name \notin DOMAIN df.columns
            THEN << [column |-> c.name, check |-> "column_in_dataframe"] >>
            ELSE LET col == df.columns[c.name]
                 IN  (IF col.dtype # c.dtype
                      THEN << [column |-> c.name, check |-> "dtype"] >> ELSE << >>)
                     \o (IF ~c.nullable /\ \E k \in 1..Len(col.values) : col.values[k] = << >>
                         THEN << [column |-> c.name, check |-> "not_nullable"] >> ELSE << >>)
                     \o Concat([k \in 1..Len(c.checks) |->
                                   IF \A v \in NonNull(col.values) : CheckHolds(c.checks[k], v)
                                   THEN << >>
                                   ELSE << [column |-> c.name, check |-> c.checks[k].type] >>])
    IN  Concat([k \in 1..Len(schema.columns) |-> ColumnErrors(schema.columns[k])])

\* _check_unique_constraints, lines 183-200: every column of the schema that the
\* dataframe has is looked at; duplicated() flags each row that repeats an
\* earlier one.
_check_unique_constraints(df, schema) ==
    LET Duplicates(values) ==
            {k \in 1..Len(values) : \E j \in 1..(k - 1) : values[j] = values[k]}
        Violation(c) ==
            IF c.name \in DOMAIN df.columns /\ Duplicates(df.columns[c.name].values) # {}
            THEN << [type |-> "unique_violation", column |-> c.name,
                     duplicate_count |->
                         Cardinality(Duplicates(df.columns[c.name].values))] >>
            ELSE << >>
    IN  Concat([k \in 1..Len(schema.columns) |-> Violation(schema.columns[k])])

\* What schema.validate does besides returning or raising SchemaErrors: it may
\* raise another exception (line 170).
PanderaOutcomes == {"ok", "raise"}

\* DataValidator.validate_dataframe, lines 121-181: the pair that is returned.
validate_dataframe(df, schema, contract_id, t, outcome) ==
    LET errors == SchemaErrorsOf(schema, df)
        base == [is_valid |-> FALSE, total_rows |-> df.rows, valid_rows |-> 0,
                 invalid_rows |-> 0, errors |-> << >>, warnings |-> << >>,
                 timestamp |-> t, contract_id |-> contract_id,
                 schema_name |-> schema.name]
        result ==
            IF outcome = "raise"
            THEN [base EXCEPT !.errors = << [type |-> "unexpected_error"] >>]
            ELSE IF errors # << >>
            THEN [base EXCEPT !.invalid_rows = df.rows, !.errors = errors]
            ELSE [base EXCEPT !.is_valid = TRUE, !.valid_rows = df.rows,
                              !.warnings = _check_unique_constraints(df, schema)]
    IN  <<result.is_valid, result>>

InitValidators ==
    /\ files = << >>
    /\ suites = << >>
    /\ clock = 1
    /\ geFailures = MaxGeFailures
    /\ insOrder = << >>
    /\ last = Served("start", "", << >>, << >>, 0, "none")
    /\ workers = [w \in Workers |-> Idle]

\* GreatExpectationsValidator.validate_contract_data(df, contract)
GeValidateContractData ==
    \E id \in Ids \ UuidPool, fields \in ValidatorSchemas, df \in Frames("object") :
    \E t \in Now(clock) :
        LET contract == SchemaContract(id, DataSchema("customers", fields, 1))
            store == ge_contract_suites(suites, contract)
        IN  /\ suites' = store
            /\ clock' = t
            /\ last' = Served("ge_validate", id, [df |-> df, contract |-> contract],
                              ge_validate_dataframe(df, store[id], <<id, t>>), 0, "none")
            /\ UNCHANGED <<files, geFailures, insOrder, workers>>

\* DataValidator.validate_dataframe(df, convert_schema_to_pandera(schema), contract_id)
ValidateDataframe ==
    \E id \in Ids \ UuidPool, fields \in ValidatorSchemas, df \in Frames("string") :
    \E t \in Now(clock), outcome \in PanderaOutcomes :
        LET data_schema == DataSchema("customers", fields, 1)
        IN  /\ clock' = t
            /\ last' = Served("pandera_validate", id,
                              [df |-> df, data_schema |-> data_schema, outcome |-> outcome],
                              validate_dataframe(df, convert_schema_to_pandera(data_schema),
                                                 id, t, outcome),
                              0, "none")
            /\ UNCHANGED <<files, suites, geFailures, insOrder, workers>>

NextValidators ==
    \/ GeValidateContractData
    \/ ValidateDataframe

SpecValidators == InitValidators /\ [][NextValidators]_vars

\* ------------------------------------------------------------------ claims

Absent(sid) == sid \in {<< >>, <<"">>}

\* C1 (as claimed): a create that names an id already stored is refused, and the
\* contract stored under that id stays as it was.
C1_DuplicateCreateRefused ==
    [][(/\ last'.op = "create"
        /\ ~Absent(last'.arg.id)
        /\ last'.arg.id[1] \in DOMAIN files)
       => (last'.http # 200 /\ files' = files)]_vars

\* C2: an update of an id that is not stored answers False (404 at the API),
\* creates no record for the id, and leaves every stored contract and every
\* stored suite as it was.
C2_UpdateMissingNotFound ==
    [][(last'.op = "update" /\ last'.id \notin DOMAIN files)
       => (/\ last'.ret = <<FALSE>>
           /\ last'.http = 404
           /\ last'.id \notin DOMAIN files'
           /\ files' = files
           /\ suites' = suites)]_vars

\* An update of an id that is not stored was answered while a contract and a
\* suite were stored.
C2_Witness ==
    /\ last.op = "update"
    /\ last.http = 404
    /\ DOMAIN files # {}
    /\ DOMAIN suites # {}

\* C3: delete answers true exactly when a record with the id was stored, and the
\* record is then gone while the others stay; a delete of an id that is not
\* stored answers false and changes nothing; a delete directly after a delete of
\* the same id answers false.
C3_DeleteReturnsExisted ==
    [][last'.op = "delete"
       => (/\ last'.ret = << last'.id \in DOMAIN files >>
           /\ last'.http \in {200, 404}
           /\ last'.id \notin DOMAIN files'
           /\ \A x \in DOMAIN files \ {last'.id} :
                  x \in DOMAIN files' /\ files'[x] = files[x]
           /\ last'.id \notin DOMAIN files => (files' = files /\ suites' = suites)
           /\ (last.op = "delete" /\ last.id = last'.id) => last'.ret = <<FALSE>>)]_vars

\* A stored record was deleted while another one was stored.
C3_Witness ==
    /\ last.op = "delete"
    /\ last.ret = <<TRUE>>
    /\ DOMAIN files # {}

\* C4: durability.  A create that succeeded leaves a contract that get returns,
\* and a contract that get returns is still returned after every step (creates,
\* updates and deletes of other ids, validation runs, a restart) except a delete
\* of its own id.
C4_Durable ==
    [][/\ (last'.op = "create" /\ last'.http = 200)
              => get_contract(files', last'.ret[1]) # << >>
       /\ \A x \in Ids :
              (/\ get_contract(files, x) # << >>
               /\ ~(last'.op = "delete" /\ last'.id = x))
              => get_contract(files', x) # << >>]_vars

\* The process was restarted and every id is still stored.
C4_Witness ==
    /\ last.op = "restart"
    /\ DOMAIN files = Ids

\* C5 (as claimed): list answers every stored contract exactly once, ordered by
\* created_at descending, contracts with equal created_at in the order in which
\* they were inserted.
C5_ListOrderedTiesByInsertion ==
    last.op = "list" =>
        LET r == last.ret
            Position(x) == CHOOSE k \in 1..Len(insOrder) : insOrder[k] = x
        IN  /\ Len(r) = Cardinality(DOMAIN files)
            /\ \A x \in DOMAIN files : \E k \in 1..Len(r) : r[k] = JsonLoad(files[x])
            /\ \A i, j \in 1..Len(r) : i < j => SortKey(r[i]) >= SortKey(r[j])
            /\ \A i, j \in 1..Len(r) :
                   (i < j /\ r[i].created_at = r[j].created_at)
                   => Position(r[i].id[1]) < Position(r[j].id[1])

\* C6: a create that succeeds assigns an id that was not stored when the request
\* carried none and keeps the given id otherwise, stamps created_at and
\* updated_at, and answers the id; get on that id then yields a contract with the
\* id and the submitted name, dataset, fields, status, owner and tags.
C6_CreateGetRoundTrip ==
    [][(last'.op = "create" /\ last'.http = 200)
       => LET sent == last'.arg
              id == last'.ret[1]
              got == get_contract(files', id)
          IN  /\ id # ""
              /\ IF Absent(sent.id) THEN id \notin DOMAIN files ELSE id = sent.id[1]
              /\ got # << >>
              /\ got[1].id = <<id>>
              /\ got[1].created_at # << >> /\ got[1].created_at[1] \in Now(clock)
              /\ got[1].updated_at = <<clock'>>
              /\ got[1].name = sent.name
              /\ got[1].dataset_name = sent.dataset_name
              /\ got[1].fields = sent.fields
              /\ got[1].status = sent.status
              /\ got[1].owner = sent.owner
              /\ got[1].tags = sent.tags]_vars

\* A create that named its id succeeded with a body that carries an owner, tags
\* and timestamps of its own.
C6_Witness ==
    /\ last.op = "create"
    /\ last.http = 200
    /\ ~Absent(last.arg.id)
    /\ last.arg.owner # << >>
    /\ last.arg.created_at # << >>

\* C7: after a successful update the stored updated_at is the time of the
\* update, whatever updated_at the submitted contract carried.
C7_UpdateRefreshesUpdatedAt ==
    (last.op = "update" /\ last.ret = <<TRUE>>)
    => get_contract(files, last.id)[1].updated_at = <<clock>>

\* An update succeeded whose body carried an updated_at other than the time of
\* the update.
C7_Witness ==
    /\ last.op = "update"
    /\ last.ret = <<TRUE>>
    /\ last.arg.updated_at # << >>
    /\ last.arg.updated_at # <<clock>>

\* C8 (as claimed): directly after a successful create the stored contract is a
\* draft, and a stored contract becomes active only by an activation.
C8_CreatedInDraft ==
    [][/\ (last'.op = "create" /\ last'.http = 200)
              => files'[last'.ret[1]].status = ContractStatus.DRAFT
       /\ \A x \in DOMAIN files' :
              (/\ files'[x].status = ContractStatus.ACTIVE
               /\ (x \notin DOMAIN files \/ files[x].status # ContractStatus.ACTIVE))
              => (last'.op = "activate" /\ last'.id = x)]_vars

\* C9: a validation run, whatever its outcome, leaves every stored contract as
\* it was.
C9_ValidateLeavesRegistry ==
    [][last'.op = "validate" => files' = files]_vars

\* A validation of a stored contract ran its checks and failed on the data.
C9_Witness ==
    /\ last.op = "validate"
    /\ last.id \in DOMAIN files
    /\ ~last.ret.success
    /\ last.ret.details # << >>

\* C10 (as claimed): get, update, delete, status, activate and validate of an id
\* that is not stored are answered with 404.
C10_MissingIdIs404 ==
    [][(/\ last'.op \in {"get", "update", "delete", "status", "activate", "validate"}
        /\ last'.id \notin DOMAIN files)
       => last'.http = 404]_vars

\* C11: a metadata sync that fails (the catalog answers a status other than
\* 200/201, or the request raises) does not fail the create or update that
\* triggered it: the request is answered with success, and the directory holds
\* exactly what the manager wrote for the submitted contract.
C11_SyncFailureNonFatal ==
    [][(last'.op \in {"create", "update"} /\ last'.sync \in {"failed", "raised"})
       => (/\ last'.http = 200
           /\ last'.ret # << >>
           /\ IF last'.op = "create"
              THEN \E t1 \in Now(clock) :
                       files' = create_files(files, last'.arg, last'.ret[1], t1, clock')
              ELSE /\ last'.ret = <<TRUE>>
                   /\ files' = update_files(files, last'.id, last'.arg, clock')
           /\ get_contract(files', IF last'.op = "create" THEN last'.ret[1] ELSE last'.id)
                  # << >>)]_vars

\* An update was answered with success although its metadata sync raised.
C11_Witness ==
    /\ last.op = "update"
    /\ last.sync = "raised"
    /\ last.http = 200
    /\ get_contract(files, last.id) # << >>

\* C12 (as claimed): when two writers (create, update, delete, activate) have
\* run at the same time, the directory is what it is after the two have run one
\* after the other, in one of the two orders; writers on different ids leave
\* each other's record as it is after the one request alone.
C12_WritersSerialized ==
    LET r1 == workers[1]
        r2 == workers[2]
    IN  (/\ r1.op \in WriterOps /\ r1.todo = << >>
         /\ r2.op \in WriterOps /\ r2.todo = << >>)
        => IF r1.id = r2.id
           THEN files \in {Serial(Serial(InitialDir, r1), r2),
                           Serial(Serial(InitialDir, r2), r1)}
           ELSE files = Serial(Serial(InitialDir, r1), r2)

\* C13 (as claimed): a get or a list that has run at the same time as a create or
\* an update answers what it answers before the write or what it answers after
\* it, and never fails on a record that is partly written.
C13_ReaderSeesWholeRecord ==
    \A w \in Workers : \A o \in Workers \ {w} :
        LET r == workers[w]
            after == Serial(InitialDir, workers[o])
        IN  (/\ r.op \in {"get", "list"} /\ r.todo = << >>
             /\ workers[o].op \in {"create", "update"})
            => IF r.op = "get"
               THEN r.ret \in {Answer(get_contract(InitialDir, r.id)),
                               Answer(get_contract(after, r.id))}
               ELSE \E dir \in {InitialDir, after} :
                    \E globOrder \in Enumerations(DOMAIN dir) :
                        r.ret = Answer(list_contracts(dir, globOrder))

\* C14 (as claimed): no schema and no contract is constructed or stored whose
\* fields list is empty, or has a field with a blank name, or has two fields of
\* one name (the construction fails with InvalidSchema).
C14_InvalidSchemaRefused ==
    LET Valid(fields) ==
            /\ fields # << >>
            /\ \A k \in 1..Len(fields) : fields[k].name # ""
            /\ \A i, j \in 1..Len(fields) : fields[i].name = fields[j].name => i = j
    IN  /\ \A id \in DOMAIN files : Valid(files[id].fields)
        /\ last.op = "convert" => Valid(last.arg.fields)

\* C15 (as claimed): a schema with a rule that does not fit the type of its field
\* (pattern, min_length, max_length on a field that is not a string; min_value,
\* max_value on a field that is not a number) is not compiled (no suite is
\* saved and no list of expectations is returned for it), and no validation
\* runs its checks.
C15_IllTypedRuleNotCompiled ==
    LET IllTyped(data_type, rule) ==
            \/ rule \in {"pattern", "min_length", "max_length"} /\ data_type # "string"
            \/ rule \in {"min_value", "max_value"} /\ data_type \notin {"integer", "float"}
        IllTypedContract(fields) ==
            \E k \in 1..Len(fields) : \E c \in 1..Len(fields[k].constraints) :
                IllTyped(fields[k].data_type, fields[k].constraints[c][1])
        IllTypedSchema(fields) ==
            \E k \in 1..Len(fields) : \E c \in 1..Len(fields[k].validation_rules) :
                IllTyped(fields[k].data_type, fields[k].validation_rules[c].type)
    IN  /\ \A id \in DOMAIN files \cap DOMAIN suites : ~IllTypedContract(files[id].fields)
        /\ last.op = "convert" => ~IllTypedSchema(last.arg.fields)
        /\ (last.op = "validate" /\ last.id \in DOMAIN files /\ last.ret.details # << >>)
               => ~IllTypedContract(files[last.id].fields)

\* C16 (as claimed): the compiled checks are, field by field in the order of the
\* fields: one column_exists, then one not_null if and only if the field is
\* required, then one type_match whatever the data type, then one check for
\* each rule of the field in the order of the rules.
C16_CompileOrder ==
    LET Kind(e) ==
            CASE e.expectation_type = "expect_column_to_exist" -> "column_exists"
              [] e.expectation_type = "expect_column_values_to_not_be_null" -> "not_null"
              [] e.expectation_type = "expect_column_values_to_be_of_type" -> "type_match"
              [] OTHER -> "rule"
        Kinds(checks) == [k \in 1..Len(checks) |-> <<Kind(checks[k]), checks[k].column>>]
        Claimed(name, required, rules) ==
            << <<"column_exists", name>> >>
            \o (IF required THEN << <<"not_null", name>> >> ELSE << >>)
            \o << <<"type_match", name>> >>
            \o [k \in 1..rules |-> <<"rule", name>>]
    IN  /\ \A id \in DOMAIN files \cap DOMAIN suites :
               Kinds(suites[id]) =
                   Concat([k \in 1..Len(files[id].fields) |->
                              Claimed(files[id].fields[k].name,
                                      ~files[id].fields[k].nullable,
                                      Len(files[id].fields[k].constraints))])
        /\ last.op = "convert" =>
               Kinds(last.ret) =
                   Concat([k \in 1..Len(last.arg.fields) |->
                              Claimed(last.arg.fields[k].name,
                                      last.arg.fields[k].required,
                                      Len(last.arg.fields[k].validation_rules))])

\* C17: when the checks of a stored contract have run on a dataset, the result
\* has one outcome for each compiled check, in their order; success is true
\* exactly when every outcome is a success; and errors has one entry for each
\* failing check, also for those that come after another failing check.
C17_SuccessIffAllChecksPass ==
    (/\ last.op = "validate"
     /\ last.id \in DOMAIN files
     /\ last.id \in DOMAIN suites
     /\ last.arg.suffix \in {"csv", "json"}
     /\ last.arg.readable)
    => LET r == last.ret
           suite == suites[last.id]
           failing == {k \in 1..Len(suite) : ~ExpectationSuccess(suite[k], last.arg.columns)}
       IN  /\ Len(r.details) = Len(suite)
           /\ \A k \in 1..Len(suite) :
                  /\ r.details[k].expectation_type = suite[k].expectation_type
                  /\ r.details[k].column = suite[k].column
                  /\ r.details[k].success = (k \notin failing)
           /\ r.success = (failing = {})
           /\ Len(r.errors) = Cardinality(failing)
           /\ \A k \in failing : \E j \in 1..Len(r.errors) :
                  r.errors[j] = <<"Falha na expectativa", suite[k].expectation_type>>

\* A run in which a check passed and three checks failed one after the other.
C17_Witness ==
    /\ last.op = "validate"
    /\ last.ret.details # << >>
    /\ ~last.ret.success
    /\ Len(last.ret.errors) >= 3
    /\ \E k \in 1..Len(last.ret.details) : last.ret.details[k].success

\* C18: when the checks of a stored contract have run on a dataset that lacks a
\* column of the contract, the column_exists check of that column is reported
\* failed and success is false, and every check on a column that the dataset
\* has is reported with the outcome it has on that column.
C18_MissingColumnFailsOthersRun ==
    (/\ last.op = "validate"
     /\ last.id \in DOMAIN files
     /\ last.id \in DOMAIN suites
     /\ last.arg.suffix \in {"csv", "json"}
     /\ last.arg.readable
     /\ \E f \in 1..Len(files[last.id].fields) :
            files[last.id].fields[f].name \notin DOMAIN last.arg.columns)
    => LET r == last.ret
           suite == suites[last.id]
           columns == last.arg.columns
       IN  /\ ~r.success
           /\ Len(r.details) = Len(suite)
           /\ \A f \in 1..Len(files[last.id].fields) :
                  files[last.id].fields[f].name \notin DOMAIN columns
                  => \E k \in 1..Len(suite) :
                         /\ suite[k].expectation_type = "expect_column_to_exist"
                         /\ suite[k].column = files[last.id].fields[f].name
                         /\ ~r.details[k].success
           /\ \A k \in 1..Len(suite) :
                  suite[k].column \in DOMAIN columns
                  => /\ r.details[k].column = suite[k].column
                     /\ r.details[k].success = ExpectationSuccess(suite[k], columns)
                     /\ suite[k].expectation_type = "expect_column_to_exist"
                            => r.details[k].success

\* The users contract was validated on a file without the age column: the checks
\* on email passed, those on age failed.
C18_Witness ==
    /\ last.op = "validate"
    /\ last.arg = DataUsersNoAge
    /\ last.id \in DOMAIN files
    /\ files[last.id].fields = FieldsUsers
    /\ last.ret.details # << >>
    /\ \E k \in 1..Len(last.ret.details) :
           last.ret.details[k].column = "email" /\ last.ret.details[k].success

\* C19: when the file uploaded for a stored contract has a format that is not
\* supported, or cannot be read, or the engine raises, validate_data returns a
\* result (it does not raise) with success false, exactly one entry in errors
\* and no outcome of a check.
C19_StructuralErrorAborts ==
    (/\ last.op = "validate"
     /\ last.id \in DOMAIN files
     /\ \/ last.arg.suffix \notin {"csv", "json"}
        \/ ~last.arg.readable
        \/ last.id \notin DOMAIN suites)
    => /\ last.http = 200
       /\ ~last.ret.success
       /\ Len(last.ret.errors) = 1
       /\ last.ret.details = << >>
       /\ last.ret.contract_id = last.id

\* A stored contract was validated on a csv file that pandas cannot read.
C19_Witness ==
    /\ last.op = "validate"
    /\ last.id \in DOMAIN files
    /\ last.arg = DataUnreadable
    /\ last.ret.errors = << <<"Erro na validacao">> >>

\* C20 (as claimed): two validation runs, one directly after the other, of the
\* same contract with the same checks on the same dataset give results that are
\* equal in every field.
C20_ValidationPure ==
    [][(/\ last.op = "validate"
        /\ last'.op = "validate"
        /\ last'.id = last.id
        /\ last'.arg = last.arg
        /\ files' = files
        /\ suites' = suites)
       => last'.ret = last.ret]_vars

\* C21 (as claimed): when the dataframe has every column of the schema, of the
\* type of the field, and every value satisfies the rules of its field, then a
\* validation that runs the checks compiled from that schema succeeds, also when
\* the dataframe has one more column or its columns in another order.
C21_ValidDataPasses ==
    (/\ last.op = "ge_validate"
     /\ LET fields == last.arg.contract.data_schema.fields
            df == last.arg.df
            TypeOf(data_type) == CASE data_type = "integer" -> "int64"
                                   [] data_type = "string" -> "object"
            RuleHolds(rule, values) ==
                CASE rule.type = "min_value" -> \A v \in NonNull(values) : v >= rule.value
                  [] rule.type = "unique" ->
                         \A i, j \in 1..Len(values) :
                             (values[i] # << >> /\ values[i] = values[j]) => i = j
        IN  /\ [k \in 1..Len(last.ret.results) |->
                   [expectation_type |-> last.ret.results[k].expectation_type,
                    column |-> last.ret.results[k].column,
                    kwargs |-> last.ret.results[k].kwargs]]
               = convert_schema_to_expectations(last.arg.contract.data_schema)
            /\ \A f \in 1..Len(fields) :
                   /\ fields[f].name \in DOMAIN df.columns
                   /\ df.columns[fields[f].name].dtype = TypeOf(fields[f].data_type)
                   /\ fields[f].required =>
                          \A k \in 1..Len(df.columns[fields[f].name].values) :
                              df.columns[fields[f].name].values[k] # << >>
                   /\ \A r \in 1..Len(fields[f].validation_rules) :
                          RuleHolds(fields[f].validation_rules[r],
                                    df.columns[fields[f].name].values))
    => last.ret.success

\* C22 (as claimed): when a field carries a unique rule and its column holds two
\* equal values that are not null, the result of validate_dataframe is invalid
\* and its errors name a uniqueness failure of that column; and no uniqueness
\* finding, among the errors or the warnings, names a column whose field has no
\* unique rule.
C22_UniqueRuleEnforced ==
    (last.op = "pandera_validate" /\ last.arg.outcome = "ok")
    => LET fields == last.arg.data_schema.fields
           df == last.arg.df
           result == last.ret[2]
           HasUnique(name) ==
               \E f \in 1..Len(fields) :
                   /\ fields[f].name = name
                   /\ \E r \in 1..Len(fields[f].validation_rules) :
                          fields[f].validation_rules[r].type = "unique"
           Repeats(name) ==
               /\ name \in DOMAIN df.columns
               /\ \E i, j \in 1..Len(df.columns[name].values) :
                      /\ i # j
                      /\ df.columns[name].values[i] # << >>
                      /\ df.columns[name].values[i] = df.columns[name].values[j]
           IsFinding(x) == "type" \in DOMAIN x /\ x.type = "unique_violation"
       IN  /\ \A f \in 1..Len(fields) :
                  (HasUnique(fields[f].name) /\ Repeats(fields[f].name))
                  => /\ ~last.ret[1]
                     /\ ~result.is_valid
                     /\ \E k \in 1..Len(result.errors) :
                            /\ IsFinding(result.errors[k])
                            /\ result.errors[k].column = fields[f].name
           /\ \A k \in 1..Len(result.errors) :
                  IsFinding(result.errors[k]) => HasUnique(result.errors[k].column)
           /\ \A k \in 1..Len(result.warnings) :
                  IsFinding(result.warnings[k]) => HasUnique(result.warnings[k].column)

\* C23: an activation of a stored contract leaves the directory as it was except
\* that the record of that id has status active and updated_at read from the
\* clock at the activation (id, name, description, version, dataset, fields,
\* owner, tags and created_at are as before); an activation of an id that is not
\* stored answers 404 and leaves the directory and the suites as they were.
C23_ActivateChangesStatusOnly ==
    [][last'.op = "activate"
       => IF last'.id \in DOMAIN files
          THEN /\ clock' \in Now(clock)
               /\ files' = [files EXCEPT ![last'.id] =
                               [@ EXCEPT !.status = ContractStatus.ACTIVE,
                                         !.updated_at = <<"str", clock'>>]]
          ELSE /\ last'.http = 404
               /\ files' = files
               /\ suites' = suites]_vars

\* The orders contract, submitted as a draft, was activated after the clock had
\* advanced: it is stored as active with the created_at of its creation.
C23_Witness ==
    /\ last.op = "activate"
    /\ last.http = 200
    /\ last.id \in DOMAIN files
    /\ files[last.id].name = "orders_contract"
    /\ files[last.id].status = ContractStatus.ACTIVE
    /\ files[last.id].created_at = <<"str", 1>>
    /\ files[last.id].updated_at = <<"str", 2>>

\* C24: every stored record carries the id of its file: the id field of the
\* document in <id>.json is id, whatever id the body of a create or an update
\* carried.
C24_StoredIdIsKey ==
    \A id \in DOMAIN files : files[id].id = <<id>>

\* An update of one id with a body that carried another id was stored under the
\* id of the path, with that id in the record.
C24_Witness ==
    /\ last.op = "update"
    /\ last.http = 200
    /\ last.arg.id # << >>
    /\ last.arg.id # <<last.id>>
    /\ last.id \in DOMAIN files
    /\ files[last.id].id = <<last.id>>
    /\ files[last.id].name = last.arg.name

\* C25 (as claimed): a create or an update that raises (the handler answers with
\* an error other than 404) leaves the contracts directory as it was before the
\* call.
C25_FailedWriteLeavesStore ==
    [][(last'.op \in {"create", "update"} /\ last'.ret = << >>)
       => files' = files]_vars

\* C26 (as claimed): a create, update or delete that completes (the handler
\* answers 200) on a consistent store leaves a consistent store: a suite exists
\* for exactly the ids that have a contract, and its expectations are those
\* derived from the fields of the stored contract.
C26_SuitesMatchRegistry ==
    [][LET Consistent(dir, store) ==
               /\ DOMAIN store = DOMAIN dir
               /\ \A id \in DOMAIN dir : store[id] = SuiteExpectations(dir[id].fields)
       IN  (/\ Consistent(files, suites)
            /\ last'.op \in {"create", "update", "delete"}
            /\ last'.http = 200)
           => Consistent(files', suites')]_vars

\* C27 (as claimed): an update or an activation of a stored contract leaves its
\* created_at as it was, and every stored contract has a created_at, which is not
\* later than its updated_at.
C27_CreatedAtSetOnce ==
    [][/\ (last'.op \in {"update", "activate"} /\ last'.id \in DOMAIN files)
          => /\ last'.id \in DOMAIN files'
             /\ files'[last'.id].created_at = files[last'.id].created_at
       /\ \A id \in DOMAIN files' :
              /\ files'[id].created_at # << >>
              /\ files'[id].updated_at # << >>
              /\ files'[id].created_at[2] <= files'[id].updated_at[2]]_vars

\* C28 (as claimed): when a delete of an id has returned true and the only other
\* request, an update or an activation of the same id, has ended as well, then
\* however the steps of the two were interleaved no record and no expectation
\* suite of that id is stored.
C28_DeletedNotResurrected ==
    \A w1, w2 \in Workers :
        (/\ w1 # w2
         /\ workers[w1].op = "delete"
         /\ workers[w1].todo = << >>
         /\ workers[w1].ret = Answer(<<TRUE>>)
         /\ workers[w2].op \in {"update", "activate"}
         /\ workers[w2].todo = << >>
         /\ workers[w2].id = workers[w1].id)
        => /\ workers[w1].id \notin DOMAIN files
           /\ workers[w1].id \notin DOMAIN suites

\* C29 (as claimed): the checks that a validation of a contract runs are those
\* compiled from the schema the contract has at that validation.
C29_ChecksOfCurrentSchema ==
    last.op = "ge_validate"
    => LET compiled == convert_schema_to_expectations(last.arg.contract.data_schema)
       IN  /\ Len(last.ret.results) = Len(compiled)
           /\ \A k \in 1..Len(compiled) :
                  /\ last.ret.results[k].expectation_type = compiled[k].expectation_type
                  /\ last.ret.results[k].column = compiled[k].column
                  /\ last.ret.results[k].kwargs = compiled[k].kwargs

\* C30 (as claimed): in every result of validate_dataframe, is_valid is true
\* exactly when errors is empty, valid_rows and invalid_rows add up to
\* total_rows, and the boolean returned with the result is its is_valid.
C30_ResultConsistent ==
    last.op = "pandera_validate"
    => LET result == last.ret[2]
       IN  /\ result.is_valid = (result.errors = << >>)
           /\ result.valid_rows + result.invalid_rows = result.total_rows
           /\ last.ret[1] = result.is_valid

=============================================================================
